---- MODULE Spec2Model ----
(***************************************************************************)
(* Model of the real-time voice conversation loop:                         *)
(*   - WebRTCVADProcessor (src/src/vad/run.py): frame-level voice activity  *)
(*     state machine with pre-voice and voice buffers;                      *)
(*   - the VAD callbacks of ParallelStreamingSpeechConversation;            *)
(*   - StreamingAudioProcessor (src/src/voice/run.py): capture callback     *)
(*     and playback worker thread;                                          *)
(*   - ParallelOpenAIHandler.generate_parallel_response                     *)
(*     (src/src/text/run.py): token producer and speech producer tasks.     *)
(*                                                                         *)
(* Audio frames are identified by their arrival index among the frames the *)
(* classifier accepted. Wall-clock time is a discrete clock `now`.         *)
(* Text is a sequence of one-character strings.                            *)
(***************************************************************************)
EXTENDS Integers, Sequences, FiniteSets, TLC

\* ------------------------------------------------------------------ bounds
MaxFrames == 7            \* classified frames fed to the detector
MaxStartThreshold == 3    \* voice_start_threshold ranges over 1..MaxStartThreshold
MaxEndThreshold == 2      \* voice_end_threshold ranges over 1..MaxEndThreshold
MaxMinDuration == 2       \* min_voice_duration ranges over 1..MaxMinDuration ticks
MaxClock == 3             \* the clock runs over 1..MaxClock
MaxCaptured == 2          \* frames the capture callback classifies (SpecAudio)
MaxQueued == 2            \* buffers handed to queue_audio (SpecAudio)
MaxSpeechFrames == 43     \* speech frames of the end-to-end scenario (SpecE2E)
MaxText == 4              \* characters the chat completion streams (SpecText)
MaxConvFrames == 4        \* frames the capture callback classifies (SpecConv, SpecHistory)
MaxResponseChunks == 1    \* text chunks of one response (SpecConv, SpecHistory)
MaxExchanges == 6         \* exchanges already in the history (SpecHistory)

\* ------------------------------------------------------- program constants
VoiceBufferMaxLen == 1000 \* deque(maxlen=1000)
PreVoiceMaxLen == 10      \* deque(maxlen=10)
StartTailExtra == 3       \* the literal 3 in list(voice_buffer)[-len(pre)-3:]

VoiceStates == {"SILENCE", "VOICE_START", "VOICE_ACTIVE", "VOICE_END"}
ConversationStates == {"IDLE", "LISTENING", "VOICE_DETECTED", "PROCESSING", "RESPONDING"}
Outcomes == {"speech", "silence", "error"}
DefaultStartThreshold == 3   \* VADConfig.voice_start_threshold
DefaultEndThreshold == 10    \* VADConfig.voice_end_threshold
NoTime == 0               \* voice_start_time = None
TrailingSilence == 1      \* the 0.5 s threshold of the playback worker, in clock ticks
EmptyBuffer == 0          \* an audio buffer of zero bytes (falsy in `if audio_data`)
ContextWindow == 10       \* conversation_context[-10:]

VARIABLES
    \* WebRTCVADProcessor
    vad_config,           \* [voice_start_threshold, voice_end_threshold, min_voice_duration]
    voice_state,
    voice_frames,
    silence_frames,
    voice_buffer,
    pre_voice_buffer,
    voice_start_time,
    now,                  \* time.time()
    \* observation of the detector's interface
    cls,                  \* cls[i]: TRUE iff accepted frame i was classified as speech
    events,               \* every callback invocation so far, in order
    emitted,              \* the callback invocations of the last process_audio_frame call
    last_call,            \* input and entry state of the last process_audio_frame call
    ret,                  \* the value the last process_audio_frame call returned
    discarded,            \* frames delivered by on_voice_data in sessions dropped as too short
    feed,                 \* phase of the end-to-end scenario's caller ("off" elsewhere)
    \* ParallelStreamingSpeechConversation (VAD side)
    state,
    current_voice_session,
    voice_session_queue,
    is_running,
    \* StreamingAudioProcessor
    is_streaming,
    audio_queue,          \* queue.Queue of buffers; a buffer is its enqueue index or EmptyBuffer
    is_audio_playing,
    audio_start_time,
    last_audio_time,
    worker_pc,            \* position of the playback thread
    audio_data,           \* the playback thread's local audio_data
    written,              \* buffers written to the output device, in order
    queued,               \* number of buffers queue_audio accepted so far
    current_response_text,
    \* ParallelOpenAIHandler.generate_parallel_response
    resp_pc,              \* position of generate_parallel_response
    returned,             \* its return value
    text_pc,              \* position of text_stream_task
    full_text,            \* text_stream_task's local full_text
    text_result,          \* result of the text task once it is done
    text_failed,          \* the text task ended in its except clause
    text_chunks,          \* the chunks passed to text_callback, in order
    audio_pc,             \* position of audio_stream_task
    sentence_buffer,
    processed_length,
    synth_calls,          \* the texts passed to _text_to_speech_chunk, in order
    audio_chunks,         \* the texts whose audio was passed to audio_callback, in order
    tts_results,          \* per finished _text_to_speech_chunk call: TRUE iff it returned audio
    polled_sentence,      \* audio_stream_task polled an unfinished text task while the
                          \* text delivered so far held a complete sentence
    force_stop,           \* force_stop_audio_output: position, outcome of the last call and
                          \* whether queue_audio ran while the call was in progress
    removed,              \* the buffers force_stop_audio_output took off the queue
    conversation_context, \* the stored history: a sequence of [role, content] turns
    messages,             \* the message list last built by _process_user_input
    tr_pc,                \* position of the _transcription_task coroutine
    main_pc,              \* position of the start_conversation coroutine
    stop_done,            \* a stop_conversation call has returned
    response_sequence,    \* self.response_sequence
    transcriptions,       \* per finished transcribe_voice_session call: TRUE iff it
                          \* returned a usable text
    dequeued,             \* the sessions _transcription_task took off the queue, in order
    chunk_owner,          \* per chunk in current_response_text: the response it came from
    text_complete         \* the arguments of the on_text_complete invocations, in order

vadVars == <<vad_config, voice_state, voice_frames, silence_frames, voice_buffer,
             pre_voice_buffer, voice_start_time>>
obsVars == <<cls, events, emitted, last_call, ret, discarded, feed>>
convVars == <<state, current_voice_session, voice_session_queue>>
playVars == <<is_streaming, audio_queue, is_audio_playing, audio_start_time,
              last_audio_time, worker_pc, audio_data, written, queued>>
textVars == <<current_response_text, resp_pc, returned, text_pc, full_text, text_result,
              text_failed, text_chunks, audio_pc, sentence_buffer, processed_length,
              synth_calls, audio_chunks, tts_results, polled_sentence>>
stopVars == <<force_stop, removed>>
orchVars == <<conversation_context, messages, tr_pc, main_pc, stop_done>>
taskVars == <<response_sequence, transcriptions, dequeued, chunk_owner, text_complete>>
vars == <<vadVars, now, obsVars, convVars, is_running, playVars, textVars, stopVars,
          orchVars, taskVars>>

\* ----------------------------------------------------------------- helpers
Ev(t, f) == [type |-> t, frame |-> f]

RECURSIVE DataEvents(_)
DataEvents(fs) == IF fs = <<>> THEN <<>> ELSE <<Ev("data", Head(fs))>> \o DataEvents(Tail(fs))

RECURSIVE FramesOf(_)
\* the frames of the on_voice_data invocations in a sequence of events
FramesOf(es) ==
    IF es = <<>> THEN <<>>
    ELSE (IF Head(es).type = "data" THEN <<Head(es).frame>> ELSE <<>>) \o FramesOf(Tail(es))

Range(s) == {s[i] : i \in 1..Len(s)}

RECURSIVE CurrentSession(_)
\* the events from the last on_voice_start on
CurrentSession(es) ==
    IF es = <<>> THEN <<>>
    ELSE IF es[Len(es)].type = "start" THEN <<es[Len(es)]>>
    ELSE LET before == CurrentSession(SubSeq(es, 1, Len(es) - 1))
         IN  IF before = <<>> THEN <<>> ELSE Append(before, es[Len(es)])

RECURSIVE TrailingRun(_, _)
\* length of the run of frames classified as b that ends the classification history
TrailingRun(c, b) ==
    IF c = <<>> \/ c[Len(c)] # b THEN 0
    ELSE 1 + TrailingRun(SubSeq(c, 1, Len(c) - 1), b)

\* deque(maxlen=m).append(x)
DequeAppend(q, x, m) == IF Len(q) >= m THEN Tail(q) \o <<x>> ELSE q \o <<x>>

RECURSIVE DequeExtend(_, _, _)
\* for frame in xs: q.append(frame)
DequeExtend(q, xs, m) ==
    IF xs = <<>> THEN q ELSE DequeExtend(DequeAppend(q, Head(xs), m), Tail(xs), m)

\* list(q)[-n:] for n > 0
LastN(q, n) == IF n >= Len(q) THEN q ELSE SubSeq(q, Len(q) - n + 1, Len(q))

\* ---------------------------------------------------------------- detector
\* variant: the size check is missing
FrameRejected_NoCheck(size_ok) == FALSE

\* len(audio_data) != chunk_size * 2  ->  return self.voice_state
FrameRejected(size_ok) == ~size_ok

\* variant: the start does not look at the state
VoiceStartDue_AnyState(vstate, vframes, threshold) == vframes >= threshold

\* variant: the start comparison is off by one
VoiceStartDue_OffByOne(vstate, vframes, threshold) ==
    vstate = "SILENCE" /\ vframes + 1 >= threshold

\* voice_state == SILENCE and voice_frames >= voice_start_threshold
VoiceStartDue(vstate, vframes, threshold) ==
    vstate = "SILENCE" /\ vframes >= threshold

\* voice_state in [VOICE_START, VOICE_ACTIVE]
SessionOpen(vstate) == vstate \in {"VOICE_START", "VOICE_ACTIVE"}

\* variant: the end comparison is off by one
VoiceEndDue_OffByOne(vstate, sframes, threshold) ==
    vstate \in {"VOICE_START", "VOICE_ACTIVE"} /\ sframes + 1 >= threshold

\* voice_state in [VOICE_START, VOICE_ACTIVE] and silence_frames >= voice_end_threshold
VoiceEndDue(vstate, sframes, threshold) ==
    SessionOpen(vstate) /\ sframes >= threshold

\* if self.voice_start_time: duration = time.time() - start; duration >= min_voice_duration
SessionAccepted(start, t, minDur) ==
    start # NoTime /\ t - start >= minDur

\* variant: the slice is one frame short
StartTail_Short(vbuf, pre) == LastN(vbuf, Len(pre) + StartTailExtra - 1)

\* the frames _start_voice_session passes to on_voice_data:
\* list(self.voice_buffer)[-len(self.pre_voice_buffer)-3:]
StartTail(vbuf, pre) == LastN(vbuf, Len(pre) + StartTailExtra)

\* on_voice_end of the conversation: queue the session if it is not empty
QueueAfterVoiceEnd(queue, session) ==
    IF session # <<>> THEN Append(queue, session) ELSE queue

\* process_audio_frame: the speech branch (lines 59-77)
SpeechFrame(f) ==
    LET vf == voice_frames + 1
        vb == DequeAppend(voice_buffer, f, VoiceBufferMaxLen)
    IN  /\ voice_frames' = vf
        /\ silence_frames' = 0
        /\ UNCHANGED pre_voice_buffer
        /\ IF VoiceStartDue(voice_state, vf, vad_config.voice_start_threshold)
           THEN \* _start_voice_session
                LET vb2 == DequeExtend(vb, pre_voice_buffer, VoiceBufferMaxLen)
                    sent == StartTail(vb2, pre_voice_buffer)
                IN  /\ voice_state' = "VOICE_START"
                    /\ voice_start_time' = now
                    /\ voice_buffer' = vb2
                    /\ emitted' = <<Ev("start", 0)>> \o DataEvents(sent)
                    /\ state' = "VOICE_DETECTED"
                    /\ current_voice_session' = sent
                    /\ UNCHANGED voice_session_queue
           ELSE IF SessionOpen(voice_state)
           THEN /\ voice_state' = "VOICE_ACTIVE"
                /\ voice_buffer' = vb
                /\ emitted' = <<Ev("data", f)>>
                /\ current_voice_session' = Append(current_voice_session, f)
                /\ UNCHANGED <<voice_start_time, state, voice_session_queue>>
           ELSE /\ voice_buffer' = vb
                /\ emitted' = <<>>
                /\ UNCHANGED <<voice_state, voice_start_time, convVars>>
        /\ UNCHANGED discarded

\* process_audio_frame: the silence branch (lines 79-91)
SilenceFrame(f) ==
    LET sf == silence_frames + 1
    IN  IF voice_state = "SILENCE"
        THEN /\ silence_frames' = sf
             /\ voice_frames' = 0
             /\ pre_voice_buffer' = DequeAppend(pre_voice_buffer, f, PreVoiceMaxLen)
             /\ emitted' = <<>>
             /\ UNCHANGED <<voice_state, voice_buffer, voice_start_time, convVars, discarded>>
        ELSE IF VoiceEndDue(voice_state, sf, vad_config.voice_end_threshold)
        THEN \* _end_voice_session
             /\ IF SessionAccepted(voice_start_time, now, vad_config.min_voice_duration)
                THEN /\ emitted' = <<Ev("end", 0)>>
                     /\ voice_session_queue' =
                            QueueAfterVoiceEnd(voice_session_queue, current_voice_session)
                     /\ current_voice_session' = <<>>
                     /\ state' = "LISTENING"
                     /\ UNCHANGED discarded
                ELSE /\ emitted' = <<>>
                     /\ discarded' = discarded \cup Range(FramesOf(CurrentSession(events)))
                     /\ UNCHANGED convVars
             /\ voice_state' = "SILENCE"
             /\ voice_buffer' = <<>>
             /\ voice_start_time' = NoTime
             /\ voice_frames' = 0
             /\ silence_frames' = 0
             /\ UNCHANGED pre_voice_buffer
        ELSE /\ silence_frames' = sf
             /\ voice_frames' = 0
             /\ emitted' = <<>>
             /\ UNCHANGED <<voice_state, voice_buffer, pre_voice_buffer, voice_start_time,
                            convVars, discarded>>

\* WebRTCVADProcessor.process_audio_frame(audio_data); size_ok: the byte length is
\* chunk_size * 2; outcome: what self.vad.is_speech does with the frame
process_audio_frame(size_ok, outcome) ==
    /\ last_call' = [size_ok |-> size_ok, outcome |-> outcome, entry |-> voice_state,
                     duration |-> IF voice_start_time = NoTime THEN -1
                                  ELSE now - voice_start_time,
                     output_active |-> is_audio_playing,
                     seq |-> 1 - last_call.seq]
    /\ IF FrameRejected(size_ok) \/ outcome = "error"
       THEN /\ emitted' = <<>>
            /\ UNCHANGED <<voice_state, voice_frames, silence_frames, voice_buffer,
                           pre_voice_buffer, voice_start_time, cls, convVars, discarded>>
       ELSE /\ cls' = Append(cls, outcome = "speech")
            /\ IF outcome = "speech"
               THEN SpeechFrame(Len(cls) + 1)
               ELSE SilenceFrame(Len(cls) + 1)
    /\ events' = events \o emitted'
    /\ ret' = voice_state'
    /\ UNCHANGED <<vad_config, now>>

\* ------------------------------------------------------------------ actions
\* a caller feeds one frame to the detector
FeedFrame ==
    \E size_ok \in BOOLEAN, outcome \in Outcomes :
        /\ (size_ok /\ outcome # "error") => Len(cls) < MaxFrames
        /\ process_audio_frame(size_ok, outcome)
        /\ UNCHANGED <<feed, is_running, playVars, textVars>>
        /\ UNCHANGED <<stopVars, orchVars, taskVars>>

\* wall-clock time passes
Tick ==
    /\ now < MaxClock
    /\ now' = now + 1
    /\ UNCHANGED <<vadVars, obsVars, convVars, is_running, playVars, textVars>>
    /\ UNCHANGED <<stopVars, orchVars, taskVars>>

\* VADConfig(...) values a conversation can be constructed with
Configs ==
    [voice_start_threshold : 1..MaxStartThreshold,
     voice_end_threshold : 1..MaxEndThreshold,
     min_voice_duration : 1..MaxMinDuration]

\* VADConfig() with the default thresholds
DefaultConfigs ==
    [voice_start_threshold : {DefaultStartThreshold},
     voice_end_threshold : {DefaultEndThreshold},
     min_voice_duration : 1..MaxMinDuration]

\* WebRTCVADProcessor.__init__
InitDetector ==
    /\ voice_state = "SILENCE"
    /\ voice_frames = 0
    /\ silence_frames = 0
    /\ voice_buffer = <<>>
    /\ pre_voice_buffer = <<>>
    /\ voice_start_time = NoTime
    /\ now = 1
    /\ cls = <<>>
    /\ events = <<>>
    /\ emitted = <<>>
    /\ last_call = [size_ok |-> TRUE, outcome |-> "silence", entry |-> "SILENCE",
                    duration |-> -1, output_active |-> FALSE, seq |-> 0]
    /\ ret = "SILENCE"
    /\ discarded = {}
    /\ feed = "off"

InitConversation ==
    /\ state = "IDLE"
    /\ current_voice_session = <<>>
    /\ voice_session_queue = <<>>

InitAudio ==
    /\ is_running = FALSE
    /\ is_streaming = FALSE
    /\ audio_queue = <<>>
    /\ is_audio_playing = FALSE
    /\ audio_start_time = NoTime
    /\ last_audio_time = NoTime
    /\ worker_pc = "not_started"
    /\ audio_data = EmptyBuffer
    /\ written = <<>>
    /\ queued = 0
    /\ force_stop = [pc |-> "idle", result |-> "none", put_during |-> FALSE]
    /\ removed = <<>>

InitText ==
    /\ current_response_text = <<>>
    /\ resp_pc = "idle"
    /\ returned = <<>>
    /\ text_pc = "idle"
    /\ full_text = <<>>
    /\ text_result = <<>>
    /\ text_failed = FALSE
    /\ text_chunks = <<>>
    /\ audio_pc = "idle"
    /\ sentence_buffer = <<>>
    /\ processed_length = 0
    /\ synth_calls = <<>>
    /\ audio_chunks = <<>>
    /\ tts_results = <<>>
    /\ polled_sentence = FALSE

InitTasks ==
    /\ messages = <<>>
    /\ tr_pc = "none"
    /\ main_pc = "none"
    /\ stop_done = FALSE

InitLogs ==
    /\ response_sequence = 0
    /\ transcriptions = <<>>
    /\ dequeued = <<>>
    /\ chunk_owner = <<>>
    /\ text_complete = <<>>

InitHistory == conversation_context = <<>>

InitRest ==
    /\ InitDetector /\ InitConversation /\ InitAudio /\ InitText /\ InitTasks
    /\ InitHistory /\ InitLogs

Init == vad_config \in Configs /\ InitRest

Next == FeedFrame \/ Tick

Spec == Init /\ [][Next]_vars

\* ------------------------------------------- capture and playback threads
\* start_conversation up to its first await: is_running, LISTENING, both streams
\* started (start_input_stream sets is_streaming, start_output_stream starts the thread),
\* the transcription task created; the task runs up to its `await queue.get()`
StartConversation ==
    /\ ~is_running
    /\ worker_pc = "not_started"
    /\ is_running' = TRUE
    /\ state' = "LISTENING"
    /\ is_streaming' = TRUE
    /\ worker_pc' = "loop"
    /\ tr_pc' = "get"
    /\ main_pc' = "loop"
    /\ UNCHANGED <<textVars, vadVars, now, obsVars, current_voice_session, voice_session_queue,
                   audio_queue, is_audio_playing, audio_start_time, last_audio_time,
                   audio_data, written, queued>>
    /\ UNCHANGED <<stopVars, conversation_context, messages, stop_done, taskVars>>

\* start_input_stream.audio_callback: the device delivers one frame
AudioCallback ==
    /\ is_streaming
    /\ \E size_ok \in BOOLEAN, outcome \in Outcomes :
        /\ (size_ok /\ outcome # "error") => Len(cls) < MaxCaptured
        /\ process_audio_frame(size_ok, outcome)
    /\ UNCHANGED <<feed, is_running, playVars, textVars>>
    /\ UNCHANGED <<stopVars, orchVars, taskVars>>

\* queue_audio(audio_data): put_nowait on an unbounded queue.Queue
QueueAudio ==
    /\ is_running
    /\ queued < MaxQueued
    /\ \E empty \in BOOLEAN :
        audio_queue' = Append(audio_queue, IF empty THEN EmptyBuffer ELSE queued + 1)
    /\ queued' = queued + 1
    /\ force_stop' = [force_stop EXCEPT !.put_during = @ \/ force_stop.pc = "drained"]
    /\ UNCHANGED <<textVars, vadVars, now, obsVars, convVars, is_running, is_streaming,
                   is_audio_playing, audio_start_time, last_audio_time, worker_pc,
                   audio_data, written, removed>>
    /\ UNCHANGED <<orchVars, taskVars>>

\* WebRTCVADProcessor keeps no output-active attribute and has no set_output_state
\* method: what the detector knows of the output state never changes
DetectorOutputActive == FALSE

\* the worker's `except queue.Empty` branch decides to leave the playing state
PlaybackIdle(playing, last, t) ==
    playing /\ last # NoTime /\ t - last > TrailingSilence

\* audio_playback_worker: `while self.is_streaming` and audio_queue.get(timeout=0.1).
\* WebRTCVADProcessor defines no set_output_state, so the call at line 102, made inside
\* the `except queue.Empty` handler, raises AttributeError out of the thread.
WorkerGet ==
    /\ worker_pc = "loop"
    /\ IF ~is_streaming
       THEN /\ worker_pc' = "exited"
            /\ UNCHANGED <<audio_queue, audio_data, is_audio_playing>>
       ELSE IF audio_queue # <<>>
       THEN /\ audio_data' = Head(audio_queue)
            /\ audio_queue' = Tail(audio_queue)
            /\ worker_pc' = "got"
            /\ UNCHANGED is_audio_playing
       ELSE IF PlaybackIdle(is_audio_playing, last_audio_time, now)
       THEN /\ is_audio_playing' = FALSE
            /\ worker_pc' = "dead"
            /\ UNCHANGED <<audio_queue, audio_data>>
       ELSE /\ worker_pc' = "loop"
            /\ UNCHANGED <<audio_queue, audio_data, is_audio_playing>>
    /\ UNCHANGED <<textVars, vadVars, now, obsVars, convVars, is_running, is_streaming,
                   audio_start_time, last_audio_time, written, queued>>
    /\ UNCHANGED <<stopVars, orchVars, taskVars>>

\* audio_playback_worker lines 79-93: the popped buffer is examined; a non-empty buffer
\* in the idle state marks playback as started (lines 82-83) before the detector is told
WorkerGot ==
    /\ worker_pc = "got"
    /\ IF audio_data = EmptyBuffer
       THEN /\ worker_pc' = "loop"
            /\ UNCHANGED <<is_audio_playing, audio_start_time, last_audio_time, written>>
       ELSE IF ~is_audio_playing
       THEN /\ is_audio_playing' = TRUE
            /\ audio_start_time' = now
            /\ worker_pc' = "notify"
            /\ UNCHANGED <<last_audio_time, written>>
       ELSE /\ last_audio_time' = now
            /\ written' = Append(written, audio_data)
            /\ worker_pc' = "loop"
            /\ UNCHANGED <<is_audio_playing, audio_start_time>>
    /\ UNCHANGED <<textVars, vadVars, now, obsVars, convVars, is_running, is_streaming,
                   audio_queue, audio_data, queued>>
    /\ UNCHANGED <<stopVars, orchVars, taskVars>>

\* line 84: self.vad_processor.set_output_state(True) raises AttributeError, which the
\* `except Exception` clause at line 107 catches
WorkerNotify ==
    /\ worker_pc = "notify"
    /\ worker_pc' = "handler"
    /\ UNCHANGED <<textVars, vadVars, now, obsVars, convVars, is_running, is_streaming, audio_queue,
                   is_audio_playing, audio_start_time, last_audio_time, audio_data,
                   written, queued>>
    /\ UNCHANGED <<stopVars, orchVars, taskVars>>

\* lines 108-112: the handler resets is_audio_playing and calls set_output_state(False),
\* which raises again, now out of the thread's target
WorkerHandler ==
    /\ worker_pc = "handler"
    /\ IF is_audio_playing
       THEN /\ is_audio_playing' = FALSE
            /\ worker_pc' = "dead"
       ELSE /\ worker_pc' = "loop"
            /\ UNCHANGED is_audio_playing
    /\ UNCHANGED <<textVars, vadVars, now, obsVars, convVars, is_running, is_streaming, audio_queue,
                   audio_start_time, last_audio_time, audio_data, written, queued>>
    /\ UNCHANGED <<stopVars, orchVars, taskVars>>

\* force_stop_audio_output lines 127-133: the queue is emptied with get_nowait
ForceStopDrain ==
    /\ force_stop.pc = "idle"
    /\ force_stop.result = "none"
    /\ removed' = audio_queue
    /\ audio_queue' = <<>>
    /\ force_stop' = [force_stop EXCEPT !.pc = "drained"]
    /\ UNCHANGED <<textVars, vadVars, now, obsVars, convVars, is_running, is_streaming,
                   is_audio_playing, audio_start_time, last_audio_time, worker_pc,
                   audio_data, written, queued>>
    /\ UNCHANGED <<orchVars, taskVars>>

\* force_stop_audio_output lines 136-139: in the playing state the flag is reset and
\* set_output_state(False) is called on the detector, which has no such method
ForceStopOutcome(playing) == IF playing THEN "raised" ELSE "returned"

ForceStopReset ==
    /\ force_stop.pc = "drained"
    /\ is_audio_playing' = FALSE
    /\ force_stop' = [force_stop EXCEPT !.pc = "idle",
                                        !.result = ForceStopOutcome(is_audio_playing)]
    /\ UNCHANGED <<textVars, vadVars, now, obsVars, convVars, is_running, is_streaming,
                   audio_queue, audio_start_time, last_audio_time, worker_pc,
                   audio_data, written, queued, removed>>
    /\ UNCHANGED <<orchVars, taskVars>>

NextAudio ==
    \/ StartConversation
    \/ AudioCallback
    \/ QueueAudio
    \/ WorkerGet
    \/ WorkerGot
    \/ WorkerNotify
    \/ WorkerHandler
    \/ ForceStopDrain
    \/ ForceStopReset
    \/ Tick

SpecAudio == Init /\ [][NextAudio]_vars

\* -------------------------------------------------- end-to-end scenario
\* a caller feeds a fresh default detector a run of speech frames ...
E2ESpeech ==
    /\ feed \in {"off", "speech"}
    /\ Len(cls) < MaxSpeechFrames
    /\ process_audio_frame(TRUE, "speech")
    /\ feed' = "speech"
    /\ UNCHANGED <<is_running, playVars, textVars>>
    /\ UNCHANGED <<stopVars, orchVars, taskVars>>

\* ... followed by voice_end_threshold silence frames
E2ESilence ==
    /\ \/ feed = "speech" /\ Len(cls) >= DefaultStartThreshold
       \/ feed = "silence" /\ TrailingRun(cls, FALSE) < DefaultEndThreshold
    /\ process_audio_frame(TRUE, "silence")
    /\ feed' = "silence"
    /\ UNCHANGED <<is_running, playVars, textVars>>
    /\ UNCHANGED <<stopVars, orchVars, taskVars>>

NextE2E == E2ESpeech \/ E2ESilence \/ Tick

InitE2E == vad_config \in DefaultConfigs /\ InitRest

SpecE2E == InitE2E /\ [][NextE2E]_vars

\* ------------------------------------------ generate_parallel_response
Alphabet == {"a", " ", ".", "!", "?"}
Whitespace == {" "}

\* sentence_endings = '.!?'
SentenceEndings == <<".", "!", "?">>

\* "I'm sorry, I couldn't process that."
Fallback ==
    << "I", "'", "m", " ", "s", "o", "r", "r", "y", ",", " ", "I",
       " ", "c", "o", "u", "l", "d", "n", "'", "t", " ", "p", "r",
       "o", "c", "e", "s", "s", " ", "t", "h", "a", "t", "." >>

RECURSIVE Concat(_)
\* the chunks of a sequence joined in order
Concat(chunks) == IF chunks = <<>> THEN <<>> ELSE Head(chunks) \o Concat(Tail(chunks))

\* variant: rfind, the last occurrence
Find_Last(buf, ch) ==
    IF \E i \in 1..Len(buf) : buf[i] = ch
    THEN (CHOOSE i \in 1..Len(buf) : buf[i] = ch /\ \A j \in (i + 1)..Len(buf) : buf[j] # ch) - 1
    ELSE -1

\* str.find(ch): index from 0 of the first occurrence, -1 when there is none
Find(buf, ch) ==
    IF \E i \in 1..Len(buf) : buf[i] = ch
    THEN (CHOOSE i \in 1..Len(buf) : buf[i] = ch /\ \A j \in 1..(i - 1) : buf[j] # ch) - 1
    ELSE -1

\* any(ending in sentence_buffer for ending in sentence_endings)
HasTerminator(buf) == \E k \in 1..Len(SentenceEndings) : Find(buf, SentenceEndings[k]) # -1

RECURSIVE EarliestFrom(_, _, _)
\* the `for ending in sentence_endings` loop from the k-th ending on
EarliestFrom(buf, k, earliest) ==
    IF k > Len(SentenceEndings) THEN earliest
    ELSE LET pos == Find(buf, SentenceEndings[k])
         IN  EarliestFrom(buf, k + 1, IF pos # -1 /\ pos < earliest THEN pos ELSE earliest)

\* variant: the position of the last ending of sentence_endings that occurs is kept,
\* without the `pos < earliest_pos` comparison
EarliestPos_NoMin(buf) ==
    IF Find(buf, "?") # -1 THEN Find(buf, "?")
    ELSE IF Find(buf, "!") # -1 THEN Find(buf, "!")
    ELSE IF Find(buf, ".") # -1 THEN Find(buf, ".")
    ELSE Len(buf)

\* earliest_pos after the loop of lines 113-117
EarliestPos(buf) == EarliestFrom(buf, 1, Len(buf))

RECURSIVE LStrip(_)
LStrip(t) == IF t # <<>> /\ Head(t) \in Whitespace THEN LStrip(Tail(t)) ELSE t

RECURSIVE RStrip(_)
RStrip(t) ==
    IF t # <<>> /\ t[Len(t)] \in Whitespace THEN RStrip(SubSeq(t, 1, Len(t) - 1)) ELSE t

\* str.strip()
Strip(t) == RStrip(LStrip(t))

\* what text_stream_task returns when the stream ends
TextResult(full) == full

\* variant: the except clause returns the text accumulated so far
TextFailResult_Partial(full) == full

\* what text_stream_task returns from its except clause
TextFailResult(full) == Fallback

\* variant: the audio callback is invoked whatever the synthesis returned
Delivered_Always(ok) == TRUE

\* `if audio_data:` after _text_to_speech_chunk; ok: the request returned audio
Delivered(ok) == ok

\* variant: the responder waits for the text task only
GatherDone_TextOnly(tpc, apc) == tpc = "done"

\* asyncio.gather(text_task, audio_task) has both results
GatherDone(tpc, apc) == tpc = "done" /\ apc = "done"

\* variant: the sentence is not taken off the buffer
Remainder_Kept(buf, e) == buf

\* sentence_buffer = sentence_buffer[earliest_pos + 1:].strip()
Remainder(buf, e) == Strip(SubSeq(buf, e + 2, Len(buf)))

RECURSIVE SentenceLoop(_)
\* audio_stream_task from the `while any(...)` test (line 112) up to its next await or
\* break: the next position, the text handed to _text_to_speech_chunk there, and the
\* sentence buffer. The text task is done whenever this point is reached.
SentenceLoop(buf) ==
    IF HasTerminator(buf)
    THEN LET e == EarliestPos(buf)
         IN  IF e < Len(buf)
             THEN LET sentence == Strip(SubSeq(buf, 1, e + 1))
                      rest == Remainder(buf, e)
                  IN  IF sentence # <<>>
                      THEN [pc |-> "tts", call |-> <<sentence>>, buffer |-> rest]
                      ELSE SentenceLoop(rest)
             ELSE [pc |-> "spin", call |-> <<>>, buffer |-> buf]
    ELSE IF Strip(buf) # <<>>
    THEN [pc |-> "tts_final", call |-> <<Strip(buf)>>, buffer |-> buf]
    ELSE [pc |-> "done", call |-> <<>>, buffer |-> buf]

\* generate_parallel_response creates both tasks and awaits gather; each task runs up
\* to its first await (chat.completions.create, asyncio.sleep(0.5))
GenerateResponse ==
    /\ resp_pc = "idle"
    /\ resp_pc' = "gather"
    /\ text_pc' = "create"
    /\ audio_pc' = "sleep"
    /\ UNCHANGED <<current_response_text, returned, full_text, text_result, text_failed,
                   text_chunks, sentence_buffer, processed_length, synth_calls,
                   audio_chunks, tts_results, polled_sentence>>
    /\ UNCHANGED <<vadVars, now, obsVars, convVars, is_running, playVars>>
    /\ UNCHANGED <<stopVars, orchVars, taskVars>>

\* text_stream_task: chat.completions.create returns the stream
TextCreate ==
    /\ text_pc = "create"
    /\ text_pc' = "stream"
    /\ UNCHANGED <<current_response_text, resp_pc, returned, full_text, text_result,
                   text_failed, text_chunks, audio_pc, sentence_buffer, processed_length,
                   synth_calls, audio_chunks, tts_results, polled_sentence>>
    /\ UNCHANGED <<vadVars, now, obsVars, convVars, is_running, playVars>>
    /\ UNCHANGED <<stopVars, orchVars, taskVars>>

\* text_stream_task: one chunk of the stream; a chunk without content is skipped,
\* otherwise full_text grows and text_callback (_text_chunk_callback) is invoked
TextChunk ==
    /\ text_pc = "stream"
    /\ \E n \in 0..(MaxText - Len(full_text)) : \E chunk \in [1..n -> Alphabet] :
        IF chunk = <<>>
        THEN UNCHANGED <<full_text, text_chunks, current_response_text>>
        ELSE /\ full_text' = full_text \o chunk
             /\ text_chunks' = Append(text_chunks, chunk)
             /\ current_response_text' = current_response_text \o chunk
    /\ UNCHANGED <<resp_pc, returned, text_pc, text_result, text_failed, audio_pc,
                   sentence_buffer, processed_length, synth_calls, audio_chunks, tts_results,
                   polled_sentence>>
    /\ UNCHANGED <<vadVars, now, obsVars, convVars, is_running, playVars>>
    /\ UNCHANGED <<stopVars, orchVars, taskVars>>

\* text_stream_task: the stream ends, return full_text
TextEnd ==
    /\ text_pc = "stream"
    /\ text_pc' = "done"
    /\ text_result' = TextResult(full_text)
    /\ UNCHANGED <<current_response_text, resp_pc, returned, full_text, text_failed,
                   text_chunks, audio_pc, sentence_buffer, processed_length, synth_calls,
                   audio_chunks, tts_results, polled_sentence>>
    /\ UNCHANGED <<vadVars, now, obsVars, convVars, is_running, playVars>>
    /\ UNCHANGED <<stopVars, orchVars, taskVars>>

\* text_stream_task: create or the stream raises, return the fallback string
TextFail ==
    /\ text_pc \in {"create", "stream"}
    /\ text_pc' = "done"
    /\ text_result' = TextFailResult(full_text)
    /\ text_failed' = TRUE
    /\ UNCHANGED <<current_response_text, resp_pc, returned, full_text, text_chunks,
                   audio_pc, sentence_buffer, processed_length, synth_calls, audio_chunks, tts_results,
                   polled_sentence>>
    /\ UNCHANGED <<vadVars, now, obsVars, convVars, is_running, playVars>>
    /\ UNCHANGED <<stopVars, orchVars, taskVars>>

\* audio_stream_task: the initial asyncio.sleep(0.5) is over
AudioWake ==
    /\ audio_pc = "sleep"
    /\ audio_pc' = "poll"
    /\ UNCHANGED <<current_response_text, resp_pc, returned, text_pc, full_text,
                   text_result, text_failed, text_chunks, sentence_buffer,
                   processed_length, synth_calls, audio_chunks, tts_results, polled_sentence>>
    /\ UNCHANGED <<vadVars, now, obsVars, convVars, is_running, playVars>>
    /\ UNCHANGED <<stopVars, orchVars, taskVars>>

\* audio_stream_task: top of `while True` (lines 99-109). While the text task is not
\* done it sleeps 0.1 s and polls again; once it is done the whole result is taken
\* into the sentence buffer and the sentence loop is entered.
AudioPoll ==
    /\ audio_pc = "poll"
    /\ IF text_pc = "done"
       THEN LET remaining == SubSeq(text_result, processed_length + 1, Len(text_result))
                buf == IF remaining # <<>> THEN sentence_buffer \o remaining
                                            ELSE sentence_buffer
                step == SentenceLoop(buf)
            IN  /\ processed_length' = IF remaining # <<>> THEN Len(text_result)
                                                            ELSE processed_length
                /\ audio_pc' = step.pc
                /\ sentence_buffer' = step.buffer
                /\ synth_calls' = synth_calls \o step.call
                /\ UNCHANGED polled_sentence
       ELSE /\ polled_sentence' = (polled_sentence \/ HasTerminator(Concat(text_chunks)))
            /\ UNCHANGED <<audio_pc, sentence_buffer, processed_length, synth_calls>>
    /\ UNCHANGED <<current_response_text, resp_pc, returned, text_pc, full_text,
                   text_result, text_failed, text_chunks, audio_chunks, tts_results>>
    /\ UNCHANGED <<vadVars, now, obsVars, convVars, is_running, playVars>>
    /\ UNCHANGED <<stopVars, orchVars, taskVars>>

\* audio_stream_task: _text_to_speech_chunk returns (None when the request failed);
\* audio is resampled and passed to audio_callback (_audio_chunk_callback, which
\* queues it for playback); then the sentence loop continues, or the task ends after
\* the residual text
TTSReturn ==
    /\ audio_pc \in {"tts", "tts_final"}
    /\ \E ok \in BOOLEAN :
        /\ tts_results' = Append(tts_results, ok)
        /\ IF Delivered(ok)
           THEN /\ audio_chunks' = Append(audio_chunks, synth_calls[Len(synth_calls)])
                /\ audio_queue' = Append(audio_queue, queued + 1)
                /\ queued' = queued + 1
           ELSE UNCHANGED <<audio_chunks, audio_queue, queued>>
    /\ IF audio_pc = "tts"
       THEN LET step == SentenceLoop(sentence_buffer)
            IN  /\ audio_pc' = step.pc
                /\ sentence_buffer' = step.buffer
                /\ synth_calls' = synth_calls \o step.call
       ELSE /\ audio_pc' = "done"
            /\ UNCHANGED <<sentence_buffer, synth_calls>>
    /\ UNCHANGED <<current_response_text, resp_pc, returned, text_pc, full_text,
                   text_result, text_failed, text_chunks, processed_length,
                   polled_sentence>>
    /\ UNCHANGED <<vadVars, now, obsVars, convVars, is_running, is_streaming,
                   is_audio_playing, audio_start_time, last_audio_time, worker_pc,
                   audio_data, written>>
    /\ UNCHANGED <<stopVars, orchVars, taskVars>>

\* generate_parallel_response: gather has both results, return results[0]
ResponseReturn ==
    /\ resp_pc = "gather"
    /\ GatherDone(text_pc, audio_pc)
    /\ resp_pc' = "returned"
    /\ returned' = text_result
    /\ UNCHANGED <<current_response_text, text_pc, full_text, text_result, text_failed,
                   text_chunks, audio_pc, sentence_buffer, processed_length, synth_calls,
                   audio_chunks, tts_results, polled_sentence>>
    /\ UNCHANGED <<vadVars, now, obsVars, convVars, is_running, playVars>>
    /\ UNCHANGED <<stopVars, orchVars, taskVars>>

SystemTurn == [role |-> "system", content |-> <<"s">>]

UserTurn(text) == [role |-> "user", content |-> text]

AssistantTurn(text) == [role |-> "assistant", content |-> text]

\* _process_user_input lines 310-323, after generate_parallel_response has returned:
\* the assistant turn is stored, on_text_complete and on_audio_complete are invoked,
\* state LISTENING
CompleteResponse ==
    /\ resp_pc = "returned"
    /\ resp_pc' = "completed"
    /\ conversation_context' =
           Append(conversation_context, AssistantTurn(current_response_text))
    /\ text_complete' = Append(text_complete, current_response_text)
    /\ state' = "LISTENING"
    /\ UNCHANGED <<current_response_text, returned, text_pc, full_text, text_result,
                   text_failed, text_chunks, audio_pc, sentence_buffer, processed_length,
                   synth_calls, audio_chunks, tts_results, polled_sentence>>
    /\ UNCHANGED <<vadVars, now, obsVars, current_voice_session, voice_session_queue,
                   is_running, playVars, stopVars, messages, tr_pc, main_pc, stop_done,
                   response_sequence, transcriptions, dequeued, chunk_owner>>

NextText ==
    \/ GenerateResponse
    \/ TextCreate
    \/ TextChunk
    \/ TextEnd
    \/ TextFail
    \/ AudioWake
    \/ AudioPoll
    \/ TTSReturn
    \/ ResponseReturn
    \/ CompleteResponse

\* a conversation constructed with VADConfig()
InitDefault ==
    /\ vad_config = [voice_start_threshold |-> DefaultStartThreshold,
                     voice_end_threshold |-> DefaultEndThreshold,
                     min_voice_duration |-> 1]
    /\ InitRest

SpecText == InitDefault /\ [][NextText]_vars

\* ---------------------------------------------------------------- orchestrator
\* ParallelStreamingSpeechConversation: the capture callback (PortAudio's thread) drives
\* the detector and the VAD callbacks; _transcription_task and start_conversation are
\* coroutines of one event loop, each atomic between two awaits.

\* a text of i characters; the turns of a drawn history are told apart by their length
Utterance(i) == [j \in 1..i |-> "a"]

\* the history after n turns of alternating user and assistant turns
History(n) ==
    [i \in 1..n |-> [role |-> IF i % 2 = 1 THEN "user" ELSE "assistant",
                     content |-> Utterance(i)]]

Histories == {History(2 * k) : k \in 0..MaxExchanges}

\* variant: the window keeps the oldest turns
HistoryWindow_Oldest(ctx) == SubSeq(ctx, 1, IF Len(ctx) < ContextWindow THEN Len(ctx)
                                                                      ELSE ContextWindow)

\* self.conversation_context[-10:]
HistoryWindow(ctx) == LastN(ctx, ContextWindow)

\* messages = [system]; messages.extend(window)
BuildMessages(ctx) == <<SystemTurn>> \o HistoryWindow(ctx)

\* `while self.is_running:` of _transcription_task, then `await queue.get()`
LoopTop == IF is_running THEN "get" ELSE "exited"

\* the capture callback delivers one correctly sized frame that the classifier accepts
ConvFrame ==
    /\ is_streaming
    /\ Len(cls) < MaxConvFrames
    /\ \E outcome \in {"speech", "silence"} : process_audio_frame(TRUE, outcome)
    /\ UNCHANGED <<feed, is_running, playVars, textVars, stopVars, orchVars, taskVars>>

\* variant: the newest session is taken first
NextSession_Newest(queue) == queue[Len(queue)]

\* asyncio.Queue.get(): the oldest item
NextSession(queue) == Head(queue)

\* _transcription_task: queue.get() returns a session; an empty one is skipped,
\* otherwise transcribe_voice_session is awaited
TranscriptionGet ==
    /\ tr_pc = "get"
    /\ voice_session_queue # <<>>
    /\ voice_session_queue' = Tail(voice_session_queue)
    /\ dequeued' = Append(dequeued, NextSession(voice_session_queue))
    /\ tr_pc' = IF NextSession(voice_session_queue) = <<>> THEN LoopTop ELSE "transcribe"
    /\ UNCHANGED <<vadVars, now, obsVars, state, current_voice_session, is_running,
                   playVars, textVars, stopVars, conversation_context, messages,
                   main_pc, stop_done, response_sequence, transcriptions, chunk_owner,
                   text_complete>>

\* variant: the result is used without looking at it
TranscriptionUsable_Always(ok) == TRUE

\* `if transcription and transcription.strip():`; ok: transcribe_voice_session returned
\* a text that is not blank (it returns None after a failure or for an empty text)
TranscriptionUsable(ok) == ok

\* _transcription_task: transcribe_voice_session returns. Without a usable text the loop
\* continues; with one, _process_user_input runs its first part (lines 287-294): state
\* PROCESSING, the user turn appended, the message list built
Transcribed ==
    /\ tr_pc = "transcribe"
    /\ \E ok \in BOOLEAN :
        /\ transcriptions' = Append(transcriptions, ok)
        /\ IF TranscriptionUsable(ok)
           THEN /\ state' = "PROCESSING"
                /\ conversation_context' =
                       Append(conversation_context, UserTurn(Utterance(1)))
                /\ messages' = BuildMessages(conversation_context')
                /\ tr_pc' = "process"
           ELSE /\ tr_pc' = LoopTop
                /\ UNCHANGED <<state, conversation_context, messages>>
    /\ UNCHANGED <<vadVars, now, obsVars, current_voice_session, voice_session_queue,
                   is_running, playVars, textVars, stopVars, main_pc, stop_done,
                   response_sequence, dequeued, chunk_owner, text_complete>>

\* _process_user_input lines 296-308: state RESPONDING, the response text reset,
\* generate_parallel_response awaited
BeginResponse ==
    /\ tr_pc = "process"
    /\ state' = "RESPONDING"
    /\ current_response_text' = <<>>
    /\ chunk_owner' = <<>>
    /\ response_sequence' = response_sequence + 1
    /\ tr_pc' = "respond"
    /\ UNCHANGED <<vadVars, now, obsVars, current_voice_session, voice_session_queue,
                   is_running, playVars, stopVars, conversation_context, messages,
                   main_pc, stop_done, transcriptions, dequeued, text_complete>>
    /\ UNCHANGED <<resp_pc, returned, text_pc, full_text, text_result, text_failed,
                   text_chunks, audio_pc, sentence_buffer, processed_length, synth_calls,
                   audio_chunks, tts_results, polled_sentence>>

\* _text_chunk_callback, invoked by the text task of the response in progress
ResponseChunk ==
    /\ tr_pc = "respond"
    /\ Len(current_response_text) < MaxResponseChunks
    /\ current_response_text' = Append(current_response_text, "a")
    /\ chunk_owner' = Append(chunk_owner, response_sequence)
    /\ UNCHANGED <<vadVars, now, obsVars, convVars, is_running, playVars, stopVars,
                   orchVars, response_sequence, transcriptions, dequeued, text_complete>>
    /\ UNCHANGED <<resp_pc, returned, text_pc, full_text, text_result, text_failed,
                   text_chunks, audio_pc, sentence_buffer, processed_length, synth_calls,
                   audio_chunks, tts_results, polled_sentence>>

\* _process_user_input lines 310-323: generate_parallel_response has returned; the
\* assistant turn is appended and the state goes back to LISTENING; then the loop of
\* _transcription_task continues
ResponseDone ==
    /\ tr_pc = "respond"
    /\ conversation_context' =
           Append(conversation_context, AssistantTurn(current_response_text))
    /\ text_complete' = Append(text_complete, current_response_text)
    /\ state' = "LISTENING"
    /\ tr_pc' = LoopTop
    /\ UNCHANGED <<vadVars, now, obsVars, current_voice_session, voice_session_queue,
                   is_running, playVars, textVars, stopVars, messages, main_pc,
                   stop_done, response_sequence, transcriptions, dequeued, chunk_owner>>

\* stop_conversation (it has no await): is_running cleared, state IDLE, stop_streams
\* (is_streaming cleared, the playback queue emptied, the streams closed, the playback
\* thread joined) and cleanup (the detector reset)
stop_conversation ==
    /\ is_running' = FALSE
    /\ state' = "IDLE"
    /\ is_streaming' = FALSE
    /\ audio_queue' = <<>>
    /\ is_audio_playing' = FALSE
    /\ worker_pc' = IF worker_pc = "loop" THEN "exited" ELSE worker_pc
    /\ voice_state' = "SILENCE"
    /\ voice_frames' = 0
    /\ silence_frames' = 0
    /\ voice_buffer' = <<>>
    /\ pre_voice_buffer' = <<>>
    /\ voice_start_time' = NoTime
    /\ stop_done' = TRUE
    /\ UNCHANGED <<vad_config, now, obsVars, current_voice_session, voice_session_queue,
                   audio_start_time, last_audio_time, audio_data, written, queued,
                   textVars, stopVars, conversation_context, messages, taskVars>>

\* stop_conversation called while the conversation runs
StopConversation ==
    /\ is_running
    /\ main_pc = "loop"
    /\ stop_conversation
    /\ UNCHANGED <<tr_pc, main_pc>>

\* start_conversation: `while self.is_running` ends after the sleep; the finally block
\* cancels the transcription task, waits for it and calls stop_conversation
ConversationExit ==
    /\ main_pc = "loop"
    /\ ~is_running
    /\ tr_pc' = IF tr_pc = "exited" THEN "exited" ELSE "cancelled"
    /\ main_pc' = "done"
    /\ stop_conversation

NextConv ==
    \/ StartConversation
    \/ ConvFrame
    \/ Tick
    \/ TranscriptionGet
    \/ Transcribed
    \/ BeginResponse
    \/ ResponseChunk
    \/ ResponseDone
    \/ StopConversation
    \/ ConversationExit

\* thresholds of one frame each, so that a session fits into MaxConvFrames frames
QuickConfig ==
    [voice_start_threshold |-> 1, voice_end_threshold |-> 1, min_voice_duration |-> 1]

InitConv == vad_config = QuickConfig /\ InitRest

SpecConv == InitConv /\ [][NextConv]_vars

\* a conversation that has been running for some exchanges: the history holds their
\* turns, the detector is in SILENCE and the transcription task waits for a session
InitRunning ==
    /\ vad_config = QuickConfig
    /\ InitDetector
    /\ current_voice_session = <<>>
    /\ voice_session_queue = <<>>
    /\ state = "LISTENING"
    /\ is_running = TRUE
    /\ is_streaming = TRUE
    /\ audio_queue = <<>>
    /\ is_audio_playing = FALSE
    /\ audio_start_time = NoTime
    /\ last_audio_time = NoTime
    /\ worker_pc = "loop"
    /\ audio_data = EmptyBuffer
    /\ written = <<>>
    /\ queued = 0
    /\ force_stop = [pc |-> "idle", result |-> "none", put_during |-> FALSE]
    /\ removed = <<>>
    /\ InitText
    /\ messages = <<>>
    /\ tr_pc = "get"
    /\ main_pc = "loop"
    /\ stop_done = FALSE
    /\ InitLogs
    /\ conversation_context \in Histories

NextHistory ==
    \/ ConvFrame
    \/ Tick
    \/ TranscriptionGet
    \/ Transcribed
    \/ BeginResponse
    \/ ResponseChunk
    \/ ResponseDone
    \/ StopConversation
    \/ ConversationExit

SpecHistory == InitRunning /\ [][NextHistory]_vars

\* ================================================================== claims
Emitted(t) == \E i \in 1..Len(emitted) : emitted[i].type = t

IsIncreasing(fs) == \A i, j \in 1..Len(fs) : i < j => fs[i] < fs[j]

\* the last call classified a correctly sized frame
Classified == last_call.size_ok /\ last_call.outcome # "error"

\* C1: while output is active (StreamingAudioProcessor.is_audio_playing, the only record
\* of it the program keeps) a processed frame never emits on_voice_start and is handled
\* as silence, so it leaves no speech run behind.
C1_EchoSuppression ==
    (last_call.output_active /\ Classified) => (~Emitted("start") /\ voice_frames = 0)

\* C2: on_voice_start is emitted only by a call made in SILENCE on a speech frame that
\* completes a run of at least voice_start_threshold consecutive speech frames.
C2_StartOnlyAfterSpeechRun ==
    Emitted("start") =>
        /\ last_call.entry = "SILENCE"
        /\ Classified /\ last_call.outcome = "speech"
        /\ TrailingRun(cls, TRUE) >= vad_config.voice_start_threshold

C2_Witness ==
    /\ Emitted("start")
    /\ vad_config.voice_start_threshold = 3
    /\ Len(cls) > 4

\* C3: on_voice_end is emitted only while a session is open and only by the frame that
\* completes a run of at least voice_end_threshold consecutive silence frames; a shorter
\* silence run inside a session changes no state and emits nothing.
C3_EndOnlyAfterSilenceRun ==
    /\ Emitted("end") =>
            /\ SessionOpen(last_call.entry)
            /\ Classified /\ last_call.outcome = "silence"
            /\ TrailingRun(cls, FALSE) >= vad_config.voice_end_threshold
    /\ ( /\ SessionOpen(last_call.entry)
         /\ Classified /\ last_call.outcome = "silence"
         /\ TrailingRun(cls, FALSE) < vad_config.voice_end_threshold )
        => (emitted = <<>> /\ voice_state = last_call.entry)

C3_Witness ==
    /\ Emitted("end")
    /\ vad_config.voice_end_threshold = 2
    /\ TrailingRun(cls, FALSE) = 2

\* the last call closed a session whose measured duration was below min_voice_duration
ClosedShort ==
    /\ SessionOpen(last_call.entry)
    /\ Classified /\ last_call.outcome = "silence"
    /\ TrailingRun(cls, FALSE) >= vad_config.voice_end_threshold
    /\ last_call.duration < vad_config.min_voice_duration

\* C4: a session that ends below min_voice_duration emits no on_voice_end and leaves the
\* buffer empty, the counters 0 and the state SILENCE; and no frame delivered by
\* on_voice_data in a discarded session is part of a queued session.
C4_ShortSessionDiscarded ==
    /\ ClosedShort =>
            /\ emitted = <<>>
            /\ voice_buffer = <<>>
            /\ voice_frames = 0 /\ silence_frames = 0
            /\ voice_state = "SILENCE"
    /\ \A i \in 1..Len(voice_session_queue) :
            Range(voice_session_queue[i]) \cap discarded = {}

\* C6: a frame of the wrong byte length leaves the detector as it was, returns the
\* current state and invokes no callback.
C6_WrongSizeRejected ==
    [][ (last_call'.seq # last_call.seq /\ ~last_call'.size_ok) =>
            /\ UNCHANGED <<voice_state, voice_frames, silence_frames, pre_voice_buffer,
                           voice_buffer, voice_start_time>>
            /\ ret' = voice_state
            /\ emitted' = <<>> /\ events' = events ]_vars

C6_Witness ==
    /\ ~last_call.size_ok
    /\ voice_state = "VOICE_ACTIVE"
    /\ pre_voice_buffer # <<>>

\* the end-to-end scenario has fed all its frames and the session lasted long enough
E2EDone ==
    /\ feed = "silence"
    /\ TrailingRun(cls, FALSE) = DefaultEndThreshold
    /\ last_call.duration >= vad_config.min_voice_duration

\* C5: N >= 3 speech frames then 10 silence frames on a fresh default detector, the
\* session lasting at least min_voice_duration, emit exactly one on_voice_start, then
\* exactly N on_voice_data, then exactly one on_voice_end.
C5_EndToEndCount ==
    E2EDone =>
        LET n == Len(cls) - DefaultEndThreshold
        IN  /\ Len(events) = n + 2
            /\ events[1].type = "start"
            /\ \A i \in 2..(n + 1) : events[i].type = "data"
            /\ events[n + 2].type = "end"

C5_Witness ==
    /\ E2EDone
    /\ Len(cls) = 43 + DefaultEndThreshold
    /\ Emitted("end")

\* C7: within one session the frames passed to on_voice_data are delivered in the order
\* in which they arrived at the detector.
C7_ArrivalOrder == IsIncreasing(FramesOf(CurrentSession(events)))

RECURSIVE RefSentences(_)
\* the pieces of a text cut after each '.', '!' or '?', left to right, each trimmed;
\* the piece after the last terminator counts when it is not blank
RefSentences(t) ==
    LET marks == {i \in 1..Len(t) : t[i] \in {".", "!", "?"}}
    IN  IF marks = {}
        THEN (IF \E i \in 1..Len(t) : t[i] # " " THEN <<Strip(t)>> ELSE <<>>)
        ELSE LET m == CHOOSE i \in marks : \A j \in marks : i <= j
             IN  <<Strip(SubSeq(t, 1, m))>> \o RefSentences(SubSeq(t, m + 1, Len(t)))

IsPrefix(a, b) == Len(a) <= Len(b) /\ SubSeq(b, 1, Len(a)) = a

\* C8: whatever the chunking of the streamed text, the synthesis calls are the sentences
\* of the concatenated text, cut at the earliest terminator, trimmed, in text order:
\* a prefix of them while the speech producer runs, all of them once it is done.
C8_SegmentationIndependentOfChunking ==
    (text_pc = "done" /\ ~text_failed) =>
        /\ IsPrefix(synth_calls, RefSentences(Concat(text_chunks)))
        /\ audio_pc = "done" => synth_calls = RefSentences(Concat(text_chunks))

C8_Witness ==
    /\ audio_pc = "done" /\ ~text_failed
    /\ Len(text_chunks) = 4
    /\ \A i \in 1..4 : Len(text_chunks[i]) = 1
    /\ Len(synth_calls) = 3
    /\ synth_calls[1] = <<"a", ".">>

\* C9: once the speech producer has polled while the text delivered so far holds a
\* complete sentence, a synthesis call has been made, also while the text task is
\* still streaming.
C9_SpeechStartsEarly ==
    (polled_sentence /\ text_pc # "done") => synth_calls # <<>>

\* C10: the responder returns only after both tasks have ended, and when the stream
\* ended without failure it returns the concatenation of the chunks passed to
\* text_callback.
C10_ReturnsAfterBothTasks ==
    resp_pc = "returned" =>
        /\ text_pc = "done"
        /\ audio_pc = "done"
        /\ ~text_failed => returned = Concat(text_chunks)

C10_Witness ==
    /\ resp_pc = "returned"
    /\ ~text_failed
    /\ Len(text_chunks) >= 2
    /\ Len(audio_chunks) >= 2

AudioTaskRunning == audio_pc \in {"sleep", "poll", "tts", "tts_final"}

\* C11: when the chat completion fails the text task returns the fallback string, the
\* speech producer is not aborted (it goes on and ends normally, speaking the fallback),
\* and the responder returns the fallback string.
C11_TextFailureFallsBack ==
    text_failed =>
        /\ text_result = Fallback
        /\ AudioTaskRunning \/ audio_pc = "done"
        /\ audio_pc = "done" => synth_calls = <<Fallback>>
        /\ resp_pc = "returned" => (returned = Fallback /\ audio_pc = "done")

C11_Witness ==
    /\ text_failed
    /\ resp_pc = "returned"
    /\ text_chunks # <<>>
    /\ audio_chunks = <<Fallback>>

RECURSIVE Successful(_, _)
\* the calls among the finished ones whose synthesis returned audio
Successful(calls, results) ==
    IF results = <<>> \/ calls = <<>> THEN <<>>
    ELSE (IF Head(results) THEN <<Head(calls)>> ELSE <<>>)
         \o Successful(Tail(calls), Tail(results))

\* C12: a sentence whose synthesis fails produces no audio callback, and the speech
\* producer goes on: every sentence of the response is sent to synthesis, and the audio
\* callbacks are exactly the sentences whose synthesis succeeded.
C12_SynthesisFailureSkipped ==
    text_pc = "done" =>
        /\ Len(tts_results) <= Len(synth_calls)
        /\ audio_chunks = Successful(synth_calls, tts_results)
        /\ audio_pc = "done" =>
                /\ synth_calls = RefSentences(text_result)
                /\ Len(tts_results) = Len(synth_calls)

C12_Witness ==
    /\ audio_pc = "done"
    /\ Len(synth_calls) = 3
    /\ tts_results = <<TRUE, FALSE, TRUE>>

RECURSIVE IsSubseq(_, _)
\* a is b with some elements left out, order kept
IsSubseq(a, b) ==
    IF a = <<>> THEN TRUE
    ELSE IF b = <<>> THEN FALSE
    ELSE IF Head(a) = Head(b) THEN IsSubseq(Tail(a), Tail(b))
    ELSE IsSubseq(a, Tail(b))

\* C13: the text callback receives the increments in the order they were generated, and
\* the audio callback receives sentences in the order they occur in the text.
C13_SinksInOrder ==
    /\ Concat(text_chunks) = full_text
    /\ current_response_text = full_text
    /\ text_pc # "done" => audio_chunks = <<>>
    /\ text_pc = "done" => IsSubseq(audio_chunks, RefSentences(text_result))

C13_Witness ==
    /\ audio_pc = "done"
    /\ Len(text_chunks) >= 2
    /\ Len(audio_chunks) >= 2
    /\ audio_chunks[1] # audio_chunks[2]

\* C14: with the playback loop running and one buffer enqueued, the buffer is written
\* while is_audio_playing is true and the loop keeps running: the worker thread never
\* ends while the streams are on.
C14_PlaybackIdleScenario ==
    (queued = 1 /\ force_stop.result = "none" /\ force_stop.pc = "idle" /\ is_streaming) =>
        /\ worker_pc \notin {"handler", "dead"}
        /\ (worker_pc = "loop" /\ audio_queue = <<>> /\ audio_data # EmptyBuffer)
               => written = <<audio_data>>

\* C15: no frame is classified while is_audio_playing differs from the detector's
\* output-active state.
C15_OutputStateMirrored ==
    Classified => (last_call.output_active = DetectorOutputActive)

\* C16: force_stop_audio_output, called with no queue_audio running beside it, returns
\* normally; it never raises.
C16_ForceStopReturns ==
    ~force_stop.put_during => force_stop.result # "raised"

ListedTransitions ==
    {<<"IDLE", "LISTENING">>, <<"LISTENING", "VOICE_DETECTED">>,
     <<"VOICE_DETECTED", "LISTENING">>, <<"LISTENING", "PROCESSING">>,
     <<"PROCESSING", "RESPONDING">>, <<"RESPONDING", "LISTENING">>}
    \cup {<<s, "IDLE">> : s \in ConversationStates}

\* C17: while the conversation has not been stopped, every change of the orchestrator
\* state is one of the listed transitions.
C17_OnlyListedTransitions ==
    [][(~stop_done /\ state' # state) => <<state, state'>> \in ListedTransitions]_vars

\* C18: in a running conversation the orchestrator is never in VOICE_DETECTED while the
\* detector is in SILENCE: every end of a session, accepted or discarded, takes the
\* orchestrator back to LISTENING.
C18_LeavesVoiceDetected ==
    (is_running /\ voice_state = "SILENCE") => state # "VOICE_DETECTED"

\* C19: once stop_conversation has returned and the state is IDLE, the state stays IDLE.
C19_StaysIdleAfterStop ==
    [][(stop_done /\ state = "IDLE") => state' = "IDLE"]_vars

\* C20: when _process_user_input builds the message list, the history grows by exactly
\* the new user turn and loses nothing, and the list is the system prompt followed by
\* the last 10 turns of the history (all of them when there are fewer), in order, the
\* new user turn last.
C20_MessageWindow ==
    [][(tr_pc = "transcribe" /\ tr_pc' = "process") =>
        LET n == Len(conversation_context')
            k == IF n < 10 THEN n ELSE 10
        IN  /\ n = Len(conversation_context) + 1
            /\ \A i \in 1..(n - 1) : conversation_context'[i] = conversation_context[i]
            /\ conversation_context'[n].role = "user"
            /\ Len(messages') = k + 1
            /\ messages'[1] = SystemTurn
            /\ \A i \in 1..k : messages'[i + 1] = conversation_context'[n - k + i]
            /\ messages'[k + 1] = conversation_context'[n]]_vars

C20_Witness ==
    /\ tr_pc = "process"
    /\ Len(conversation_context) = 13
    /\ Len(messages) = 11
    /\ messages[2] = conversation_context[4]

\* C21: a transcription that fails or returns no text starts no response, appends
\* nothing to the history and leaves the state alone, and the transcription task goes
\* back to waiting for the next session (it ends only when the conversation has been
\* stopped).
C21_FailedTranscriptionSkipped ==
    [][(Len(transcriptions') > Len(transcriptions)
            /\ ~transcriptions'[Len(transcriptions')]) =>
        /\ state' = state
        /\ conversation_context' = conversation_context
        /\ response_sequence' = response_sequence
        /\ messages' = messages
        /\ tr_pc' = IF is_running THEN "get" ELSE "exited"]_vars

C21_Witness ==
    /\ transcriptions = <<FALSE, TRUE>>
    /\ Len(dequeued) = 2
    /\ tr_pc = "respond"
    /\ is_running

\* what the speech producer still has to go through once the text task is done
AudioRank ==
    CASE audio_pc = "done" -> 0
      [] audio_pc = "tts_final" -> 1
      [] audio_pc = "tts" -> 2 + Len(sentence_buffer)
      [] audio_pc = "poll" -> 3 + Len(sentence_buffer) + Len(text_result) - processed_length
      [] OTHER -> 4 + Len(sentence_buffer) + Len(text_result)

\* the sentence buffer at the entry of the sentence loop
LoopBuffer ==
    IF audio_pc = "poll"
    THEN sentence_buffer \o SubSeq(text_result, processed_length + 1, Len(text_result))
    ELSE sentence_buffer

\* C22: once the text task is done every step of the speech producer brings it closer to
\* its end: a pass of the sentence loop that cuts a sentence shortens the buffer, a
\* residual that is not blank and has no terminator is synthesized once, as the last
\* call, and a blank residual ends the task without a call.
C22_SpeechProducerTerminates ==
    [][(text_pc = "done" /\ <<audio_pc, sentence_buffer, synth_calls, tts_results>>'
                              # <<audio_pc, sentence_buffer, synth_calls, tts_results>>) =>
        /\ AudioRank' < AudioRank
        /\ audio_pc' = "tts" => Len(sentence_buffer') < Len(LoopBuffer)
        /\ audio_pc' = "tts_final" =>
               /\ ~HasTerminator(sentence_buffer')
               /\ Strip(sentence_buffer') # <<>>
               /\ synth_calls' = Append(synth_calls, Strip(sentence_buffer'))
        /\ audio_pc = "tts_final" => (audio_pc' = "done" /\ synth_calls' = synth_calls)
        /\ (audio_pc' = "done" /\ audio_pc # "tts_final") =>
               /\ Strip(sentence_buffer') = <<>>
               /\ synth_calls' = synth_calls]_vars

C22_Witness ==
    /\ audio_pc = "done"
    /\ synth_calls = << <<"a", ".">>, <<"a">> >>
    /\ text_result = <<"a", ".", " ", "a">>

\* the frames of the speech run that triggers the start: the last voice_start_threshold
\* classified frames
TriggeringRun ==
    {f \in 1..Len(cls) : f > Len(cls) - vad_config.voice_start_threshold}

\* C23: the call that emits on_voice_start emits it first, and the on_voice_data events
\* that follow cover exactly the pre-roll frames and the frames of the triggering run.
C23_StartTailExact ==
    Emitted("start") =>
        /\ emitted[1].type = "start"
        /\ \A i \in 2..Len(emitted) : emitted[i].type = "data"
        /\ Range(FramesOf(emitted)) = Range(pre_voice_buffer) \cup TriggeringRun

\* C24: while the streams are on and force_stop_audio_output is not called, the playback
\* worker never ends with a buffer left in the queue or with its last non-empty buffer
\* unwritten, and the buffers are written in the order in which they were queued.
C24_EveryBufferWritten ==
    (is_streaming /\ force_stop.result = "none" /\ force_stop.pc = "idle") =>
        /\ worker_pc = "dead" => (audio_queue = <<>> /\ audio_data \in Range(written))
        /\ IsIncreasing(written)

RECURSIVE WellNested(_, _)
\* in a log of events, data and end occur only after a start that no end has closed
WellNested(es, open) ==
    IF es = <<>> THEN TRUE
    ELSE IF Head(es).type = "start" THEN WellNested(Tail(es), TRUE)
    ELSE IF Head(es).type = "data" THEN open /\ WellNested(Tail(es), open)
    ELSE open /\ WellNested(Tail(es), FALSE)

\* C25: the detector's events are well nested: on_voice_start is emitted only from
\* SILENCE, on_voice_data only into an open session, on_voice_end only by a call that
\* finds a session open and leaves the state SILENCE; the state is never VOICE_END and
\* voice_start_time is set exactly while the state is not SILENCE.
C25_EventsWellNested ==
    /\ voice_state \in {"SILENCE", "VOICE_START", "VOICE_ACTIVE"}
    /\ (voice_start_time # NoTime) <=> (voice_state # "SILENCE")
    /\ Emitted("start") => (last_call.entry = "SILENCE" /\ voice_state = "VOICE_START")
    /\ Emitted("data") => SessionOpen(voice_state)
    /\ Emitted("end") =>
           /\ last_call.entry \in {"VOICE_START", "VOICE_ACTIVE"}
           /\ voice_state = "SILENCE"
           /\ emitted = <<Ev("end", 0)>>
    /\ WellNested(events, FALSE)

C25_Witness ==
    /\ Emitted("start")
    /\ discarded # {}
    /\ \E i \in 1..Len(events) : events[i].type = "end"

RECURSIVE AcceptedSessions(_, _)
\* the sessions closed by on_voice_end in a log of events, each with the frames
\* delivered since its on_voice_start
AcceptedSessions(es, cur) ==
    IF es = <<>> THEN <<>>
    ELSE IF Head(es).type = "start" THEN AcceptedSessions(Tail(es), <<>>)
    ELSE IF Head(es).type = "data"
    THEN AcceptedSessions(Tail(es), Append(cur, Head(es).frame))
    ELSE <<cur>> \o AcceptedSessions(Tail(es), <<>>)

\* C26: at most one response is in flight; the sessions are taken off the queue in the
\* order in which the detector closed them, the others wait in the queue; and every
\* chunk in the accumulated response text belongs to the response in progress.
C26_OneResponseAtATime ==
    /\ response_sequence - Len(text_complete) \in {0, 1}
    /\ response_sequence > Len(text_complete) => tr_pc \in {"respond", "cancelled"}
    /\ tr_pc \in {"process", "respond"} => Len(transcriptions) = Len(dequeued)
    /\ dequeued \o voice_session_queue = AcceptedSessions(events, <<>>)
    /\ \A i \in 1..Len(chunk_owner) : chunk_owner[i] = response_sequence

C26_Witness ==
    /\ tr_pc = "respond"
    /\ voice_session_queue # <<>>
    /\ chunk_owner # <<>>
    /\ state = "RESPONDING"

\* C27: when a response is completed, the assistant turn stored in the history and the
\* text given to on_text_complete are the text generate_parallel_response returned.
C27_StoredTextIsReturnedText ==
    resp_pc = "completed" =>
        /\ conversation_context[Len(conversation_context)] = AssistantTurn(returned)
        /\ text_complete[Len(text_complete)] = returned

\* C28: a frame is delivered through on_voice_data in at most one session: two
\* deliveries of the same frame are never separated by an on_voice_start.
C28_FrameInOneSession ==
    \A i, j \in 1..Len(events) :
        (i < j /\ events[i].type = "data" /\ events[j].type = "data"
               /\ events[i].frame = events[j].frame)
            => ~\E k \in i..j : events[k].type = "start"

RECURSIVE NoSpaces(_)
\* a text without its whitespace
NoSpaces(t) ==
    IF t = <<>> THEN <<>>
    ELSE (IF Head(t) \in Whitespace THEN <<>> ELSE <<Head(t)>>) \o NoSpaces(Tail(t))

\* C29: when the speech producer is done, the texts it sent to synthesis, put together,
\* are the text chunks given to the text callback, put together, whitespace aside.
C29_SpokenMatchesDisplayed ==
    audio_pc = "done" => NoSpaces(Concat(synth_calls)) = NoSpaces(Concat(text_chunks))

====
